---- MODULE Spec2Model ----
(***************************************************************************)
(* Fixed-point scalar math of lib_dsp (lib_dsp_math.c / lib_dsp_math.h).   *)
(*                                                                         *)
(* Every C `int` is a 32-bit two's complement value, held here as an       *)
(* integer in MINint..MAXint.  The 64-bit accumulator ah:al of the XS1     *)
(* maccs/lsats/lextract instructions is held as <<ah, al1, al0>>: ah is    *)
(* the signed upper word, al1 and al0 are the upper and lower 16 bits of   *)
(* the unsigned lower word al, so that no intermediate value leaves the    *)
(* 32-bit range of the model checker's integers.                           *)
(***************************************************************************)
EXTENDS Integers, Sequences, FiniteSets, TLC

VARIABLES op, x, y, q, ub, result, rad

vars == <<op, x, y, q, ub, result, rad>>

(***************************************************************************)
(* Machine words                                                           *)
(***************************************************************************)
MAXint == 2147483647
MINint == -MAXint - 1
H16 == 2^16

Lo16(v) == v % H16
Hi16(v) == v \div H16

\* the signed 32-bit value whose upper half is the 16-bit pattern hi and
\* whose lower half is the 16-bit pattern lo
Word(hi, lo) == (IF (hi % H16) >= 2^15 THEN (hi % H16) - H16 ELSE (hi % H16)) * H16 + lo

\* 32-bit wrapping addition, subtraction and negation (the xCORE add, sub, neg):
\* what a C +, - or unary - on ints gives as long as it does not overflow
AddW(a, b) ==
    LET lo == Lo16(a) + Lo16(b)
    IN  Word(Hi16(a) + Hi16(b) + Hi16(lo), Lo16(lo))

NegW(a) == IF a = MINint THEN MINint ELSE -a

SubW(a, b) == AddW(a, NegW(b))

\* The C operations a + b, a - b, -a and a * b on ints overflow: the result,
\* and with it the behaviour of the whole call, is undefined.
AddOverflows(a, b) == (a >= 0 /\ b > MAXint - a) \/ (a < 0 /\ b < MINint - a)
SubOverflows(a, b) == (a >= 0 /\ b < a - MAXint) \/ (a < 0 /\ b > a - MINint)
NegOverflows(a) == a = MINint

\* A C int expression: value is what it evaluates to when every overflowing
\* operation wraps, overflow tells that one of its operations overflowed.
Value(v) == [value |-> v, overflow |-> FALSE]

\* The outcomes of a call: the value computed, or, once a signed overflow has
\* made the call undefined, any int at all (r.value is then only the outcome
\* of a build whose arithmetic wraps; other builds return other values or trap).
Returns(r) == IF r.overflow THEN MINint..MAXint ELSE {r.value}

\* every outcome of the call r satisfies a condition that ok states of its
\* computed value and that does not hold of every int
Always(r, ok) == ~r.overflow /\ ok

\* C signed division by two: truncation towards zero
Div2(a) == IF a < 0 THEN (a + 1) \div 2 ELSE a \div 2

\* C >> on a signed int: arithmetic shift right by n, 0 <= n <= 31
Sar(a, n) == IF n = 31 THEN (IF a < 0 THEN -1 ELSE 0) ELSE a \div (2^n)

\* The outcomes of a shift whose count is outside 0..31 (undefined in C):
\* the xCORE shifter gives 0, a shifter that masks the count uses count % 32.
UBOutcomes == {"zero", "masked"}

\* 1 << n on an int
RECURSIVE Shl1(_)
Shl1(n) ==
    IF n >= 0 /\ n <= 30 THEN 2^n
    ELSE IF n = 31 THEN MINint
    ELSE IF ub = "zero" THEN 0
    ELSE Shl1(n % 32)

\* 0x080000000 >> n, the unsigned literal 2^31 shifted right, stored in an int
RECURSIVE ShrTop(_)
ShrTop(n) ==
    IF n >= 1 /\ n <= 31 THEN 2^(31 - n)
    ELSE IF n = 0 THEN MINint
    ELSE IF ub = "zero" THEN 0
    ELSE ShrTop(n % 32)

(***************************************************************************)
(* The three XS1 long-arithmetic instructions                              *)
(***************************************************************************)
\* product of two unsigned 16-bit values as <<upper 16 bits, lower 16 bits>>
MulU16(a, b) ==
    LET X == a * (b \div 256)
        Y == a * (b % 256)
        t == (X % 256) * 256 + Y
    IN  <<X \div 256 + Hi16(t), Lo16(t)>>

\* maccs: ah:al + a * b, signed, modulo 2^64
maccs(ah, al, a, b) ==
    LET P00 == MulU16(Lo16(a), Lo16(b))
        S1  == Hi16(a) * Lo16(b)
        S2  == Lo16(a) * Hi16(b)
        l   == P00[2] + Lo16(al)
        m   == P00[1] + Lo16(S1) + Lo16(S2) + Lo16(Hi16(al)) + Hi16(l)
        h   == Hi16(a) * Hi16(b) + Hi16(S1) + Hi16(S2) + Hi16(m)
    IN  <<AddW(h, ah), Lo16(m), Lo16(l)>>

\* lsats left out: the accumulator is extracted unsaturated
lsats_unsaturated(acc, bitp) == acc

\* lsats: clamp the signed 64-bit value to [-2^(31+bitp), 2^(31+bitp) - 1]
lsats(acc, bitp) ==
    IF acc[1] >= 2^(bitp - 1) THEN <<2^(bitp - 1) - 1, H16 - 1, H16 - 1>>
    ELSE IF acc[1] < -(2^(bitp - 1)) THEN <<-(2^(bitp - 1)), 0, 0>>
    ELSE acc

\* lextract ...,32: bits bitp .. bitp+31 of the 64-bit value, as an int
lextract(acc, bitp) ==
    LET w == <<acc[3], acc[2], Lo16(acc[1]), Lo16(Hi16(acc[1]))>>
        k == bitp \div 16
        s == bitp % 16
        limb(j) == (w[k + j] \div (2^s)) + (w[k + j + 1] % (2^s)) * (2^(16 - s))
    IN  Word(limb(2), limb(1))

\* low word of the accumulator as an int (a 32-bit wrapping product)
MulW(a, b) == LET acc == maccs(0, 0, a, b) IN Word(acc[2], acc[3])

\* the C product a * b overflows: the 64-bit product is not the sign
\* extension of its low word
MulOverflows(a, b) ==
    LET acc == maccs(0, 0, a, b)
    IN  ~((acc[1] = 0 /\ acc[2] < 2^15) \/ (acc[1] = -1 /\ acc[2] >= 2^15))

(***************************************************************************)
(* lib_dsp_math.c                                                          *)
(***************************************************************************)
\* multiply with the rounding term 1 << (q_format - 1) left out of the accumulator
lib_dsp_math_multiply_noround(input1_value, input2_value, q_format) ==
    lextract(maccs(0, 0, input1_value, input2_value), q_format)

lib_dsp_math_multiply(input1_value, input2_value, q_format) ==
    lextract(maccs(0, Shl1(q_format - 1), input1_value, input2_value), q_format)

lib_dsp_math_multiply_sat(input1_value, input2_value, q_format) ==
    lextract(lsats(maccs(0, Shl1(q_format - 1), input1_value, input2_value),
                   q_format), q_format)

\* the value the out-of-tree lib_dsp_qformat.h macro gives Q31(0.9999999999):
\* the constant closest to 1.0 representable at q = 31
Q31_0_9999999999 == MAXint

\* one multiply-accumulate, saturate, extract step of the Newton loops
MacSatExt(ah, al, a, b, q_format) ==
    lextract(lsats(maccs(ah, al, a, b), q_format), q_format)

\* the for loop of lib_dsp_math_reciprocal; ovf collects the overflows of
\* `-input_value` (line 62) and `result += temp` (line 68)
RECURSIVE ReciprocalLoop(_, _, _, _, _, _)
ReciprocalLoop(res, ovf, input_value, one, q_format, i) ==
    IF i >= 30 \/ res \notin MINint..MAXint \/ ovf \notin BOOLEAN
    THEN [value |-> res, overflow |-> ovf]
    ELSE LET t1 == MacSatExt(one, Shl1(q_format - 1), res, NegW(input_value), q_format)
             t2 == MacSatExt(0, Shl1(q_format - 1), res, t1, q_format)
         IN  ReciprocalLoop(AddW(res, t2),
                            ovf \/ NegOverflows(input_value) \/ AddOverflows(res, t2),
                            input_value, one, q_format, i + 1)

\* reciprocal with the q_format == 31 test left out: the loop always runs
lib_dsp_math_reciprocal_nobypass(input_value, q_format) ==
    LET sign == input_value < 0
        one  == Shl1(2 * q_format - 32)
        res0 == ShrTop(63 - 2 * q_format)
        o57  == sign /\ (NegOverflows(input_value) \/ AddOverflows(NegW(input_value), 1))
        d    == IF sign THEN AddW(NegW(input_value), 1) ELSE input_value
        res  == ReciprocalLoop(res0, o57, d, one, q_format, 0)
    IN  [value    |-> IF sign THEN NegW(res.value) ELSE res.value,
         overflow |-> res.overflow \/ (sign /\ NegOverflows(res.value))]

\* o57: `-input_value + 1` (line 57) overflows; the last disjunct of overflow:
\* `-result` (line 71) overflows
lib_dsp_math_reciprocal(input_value, q_format) ==
    LET sign == input_value < 0
        one  == Shl1(2 * q_format - 32)
        res0 == ShrTop(63 - 2 * q_format)
        o57  == sign /\ (NegOverflows(input_value) \/ AddOverflows(NegW(input_value), 1))
        d    == IF sign THEN AddW(NegW(input_value), 1) ELSE input_value
        res  == IF q_format = 31 THEN [value |-> Q31_0_9999999999, overflow |-> o57]
                ELSE ReciprocalLoop(res0, o57, d, one, q_format, 0)
    IN  [value    |-> IF sign THEN NegW(res.value) ELSE res.value,
         overflow |-> res.overflow \/ (sign /\ NegOverflows(res.value))]

\* the for loop of lib_dsp_math_invsqrroot; ovf collects the overflows of
\* `-input_value` (line 109) and `ah += result` (line 115)
RECURSIVE InvSqrRootLoop(_, _, _, _, _, _)
InvSqrRootLoop(ah, ovf, input_value, one, q_format, i) ==
    IF i >= 10 \/ ah \notin MINint..MAXint \/ ovf \notin BOOLEAN
    THEN [value |-> ah, overflow |-> ovf]
    ELSE LET t1 == MacSatExt(0, Shl1(q_format - 1), ah, ah, q_format)
             t2 == MacSatExt(one, Shl1(q_format - 1), t1, NegW(input_value), q_format)
             t3 == MacSatExt(0, Shl1(q_format - 1), ah, Div2(t2), q_format)
         IN  InvSqrRootLoop(AddW(ah, t3),
                            ovf \/ NegOverflows(input_value) \/ AddOverflows(ah, t3),
                            input_value, one, q_format, i + 1)

lib_dsp_math_invsqrroot(input_value, q_format) ==
    InvSqrRootLoop(Shl1(q_format), FALSE, input_value, Shl1(2 * q_format - 32), q_format, 0)

lib_dsp_math_squareroot(input_value, q_format) ==
    LET ah == lib_dsp_math_invsqrroot(input_value, q_format)
    IN  [value    |-> MacSatExt(0, 0, ah.value, input_value, q_format),
         overflow |-> ah.overflow]

ONE_OVER_HALFPI == 10680707
r0 == -11184804
r1 == 2236879
r2 == -212681
r3 == 11175
PI2 == 105414357
PIHALF == 26353589

\* the reduction with the reflection of odd quadrants (modulo & 1) left out
SinReduce_noreflect(rad0, q_format) ==
    LET neg    == rad0 < 0
        rad1   == IF neg THEN NegW(rad0) ELSE rad0
        modulo == Sar(lib_dsp_math_multiply(rad1, ONE_OVER_HALFPI, q_format), q_format)
        turns  == MulW(Sar(modulo, 2), PI2)
        rad2   == SubW(rad1, turns)
        bit1   == (modulo \div 2) % 2 = 1
        rad3   == IF bit1 THEN SubW(rad2, (PI2 + 1) \div 2) ELSE rad2
        fs0    == IF neg THEN -1 ELSE 1
    IN  [rad       |-> rad3,
         finalSign |-> IF bit1 THEN -fs0 ELSE fs0,
         overflow  |-> \/ neg /\ NegOverflows(rad0)
                       \/ MulOverflows(Sar(modulo, 2), PI2)
                       \/ SubOverflows(rad1, turns)
                       \/ bit1 /\ SubOverflows(rad2, (PI2 + 1) \div 2)]

\* lines 172-188 of lib_dsp_math_sin: the folded angle, finalSign, and whether
\* `-rad` (173), `(modulo >> 2) * PI2` or `rad -=` (181), `rad -=` (184) or
\* the subtraction of line 187 overflowed
SinReduce(rad0, q_format) ==
    LET neg    == rad0 < 0
        rad1   == IF neg THEN NegW(rad0) ELSE rad0
        modulo == Sar(lib_dsp_math_multiply(rad1, ONE_OVER_HALFPI, q_format), q_format)
        turns  == MulW(Sar(modulo, 2), PI2)
        rad2   == SubW(rad1, turns)
        bit1   == (modulo \div 2) % 2 = 1
        bit0   == modulo % 2 = 1
        rad3   == IF bit1 THEN SubW(rad2, (PI2 + 1) \div 2) ELSE rad2
        rad4   == IF bit0 THEN SubW((PI2 + 1) \div 2, rad3) ELSE rad3
        fs0    == IF neg THEN -1 ELSE 1
    IN  [rad       |-> rad4,
         finalSign |-> IF bit1 THEN -fs0 ELSE fs0,
         overflow  |-> \/ neg /\ NegOverflows(rad0)
                       \/ MulOverflows(Sar(modulo, 2), PI2)
                       \/ SubOverflows(rad1, turns)
                       \/ bit1 /\ SubOverflows(rad2, (PI2 + 1) \div 2)
                       \/ bit0 /\ SubOverflows((PI2 + 1) \div 2, rad3)]

\* the polynomial with sqr taken from rad instead of rad/2
SinPoly_nohalf(radf, finalSign, q_format) ==
    LET sqr == lib_dsp_math_multiply(radf, radf, q_format)
        m3  == lib_dsp_math_multiply(r3, sqr, q_format)
        m2  == lib_dsp_math_multiply(AddW(m3, r2), sqr, q_format)
        m1  == lib_dsp_math_multiply(AddW(m2, r1), sqr, q_format)
        m0  == lib_dsp_math_multiply(AddW(m1, r0), sqr, q_format)
        p   == lib_dsp_math_multiply(m0, radf, q_format)
        s   == AddW(radf, p)
    IN  [value    |-> IF finalSign < 0 THEN NegW(s) ELSE s,
         overflow |-> \/ AddOverflows(m3, r2) \/ AddOverflows(m2, r1)
                      \/ AddOverflows(m1, r0) \/ AddOverflows(radf, p)
                      \/ finalSign < 0 /\ NegOverflows(s)]

\* lines 189-200 of lib_dsp_math_sin: the polynomial on the folded angle, and
\* whether one of `+ r2`, `+ r1`, `+ r0`, `rad +` or `* finalSign` overflowed
SinPoly(radf, finalSign, q_format) ==
    LET sqr == lib_dsp_math_multiply(Div2(radf), Div2(radf), q_format)
        m3  == lib_dsp_math_multiply(r3, sqr, q_format)
        m2  == lib_dsp_math_multiply(AddW(m3, r2), sqr, q_format)
        m1  == lib_dsp_math_multiply(AddW(m2, r1), sqr, q_format)
        m0  == lib_dsp_math_multiply(AddW(m1, r0), sqr, q_format)
        p   == lib_dsp_math_multiply(m0, radf, q_format)
        s   == AddW(radf, p)
    IN  [value    |-> IF finalSign < 0 THEN NegW(s) ELSE s,
         overflow |-> \/ AddOverflows(m3, r2) \/ AddOverflows(m2, r1)
                      \/ AddOverflows(m1, r0) \/ AddOverflows(radf, p)
                      \/ finalSign < 0 /\ NegOverflows(s)]

\* f: the locals rad and finalSign after line 188, computed once
lib_dsp_math_sin(rad0, q_format) ==
    CHOOSE r \in { [SinPoly(f.rad, f.finalSign, q_format)
                        EXCEPT !.overflow = @ \/ f.overflow] :
                    f \in {SinReduce(rad0, q_format)} } : TRUE

\* cos with the phase shift by PIHALF left out
lib_dsp_math_cos_nophase(x0, q_format) == lib_dsp_math_sin(x0, q_format)

\* lib_dsp_math.h:200-202; `x+PIHALF` is a C addition too
lib_dsp_math_cos(x0, q_format) ==
    [lib_dsp_math_sin(AddW(x0, PIHALF), q_format)
        EXCEPT !.overflow = @ \/ AddOverflows(x0, PIHALF)]

(***************************************************************************)
(* Callers: every function is pure, so the state is the argument list of   *)
(* the last call (x, y, q), the function called (op), its return value     *)
(* (result) and, for sin/cos, the local rad after the quadrant reduction.  *)
(* result and rad are C int expressions [value, overflow]: what the call   *)
(* may return is Returns(result).                                          *)
(***************************************************************************)
MaxOff == 1
MaxK == 16
MaxQuad == 79
MaxStep == 4
Stride == 26

QFormats == 1..31

\* operands around the powers of two that matter to a 32-bit multiply
Operands ==
    {MINint, MAXint, 46341, -46341}
    \cup { s * (2^e) + o : s \in {-1, 1}, e \in {0, 15, 16, 30}, o \in -MaxOff..MaxOff }

\* k quarters of one(q) = 2^q, for the k that fit an int
Quarters(qf) ==
    { IF qf >= 2 THEN k * (2^(qf - 2)) ELSE (k * (2^qf)) \div 4 :
        k \in { j \in -MaxK..MaxK : qf < 2 \/ (j >= -(MAXint \div (2^(qf - 2))) /\ j <= MAXint \div (2^(qf - 2))) } }

\* the two ints whose `-input_value + 1` (line 57) is not an int
Extremes == {MINint, -MAXint}

\* "The input number has to be in the range -MAXint + PI and MAXint - PI"
InDomain(v) == v > -MAXint + (PI2 + 1) \div 2 /\ v < MAXint - (PI2 + 1) \div 2

\* angles around the multiples of pi/2
Angles ==
    { v \in { s * (k * PIHALF + j * Stride + e) :
                s \in {-1, 1}, k \in 0..MaxQuad, j \in -MaxStep..MaxStep, e \in -1..1 } :
        InDomain(v) }

InitMultiply ==
    /\ op = "none" /\ result = Value(0) /\ rad = Value(0)
    /\ x \in Operands /\ y \in Operands /\ q \in QFormats
    /\ ub \in UBOutcomes

InitNewton ==
    /\ op = "none" /\ result = Value(0) /\ rad = Value(0)
    /\ q \in QFormats /\ x \in Quarters(q) \cup Extremes /\ y = 0
    /\ ub \in UBOutcomes

InitSine ==
    /\ op = "none" /\ result = Value(0) /\ rad = Value(0)
    /\ q \in {24, 28} /\ x \in Angles /\ y = 0
    /\ ub \in UBOutcomes

Multiply ==
    /\ op' = "multiply"
    /\ result' = Value(lib_dsp_math_multiply(x, y, q))
    /\ rad' = Value(0)
    /\ UNCHANGED <<x, y, q, ub>>

MultiplySat ==
    /\ op' = "multiply_sat"
    /\ result' = Value(lib_dsp_math_multiply_sat(x, y, q))
    /\ rad' = Value(0)
    /\ UNCHANGED <<x, y, q, ub>>

Reciprocal ==
    /\ op' = "reciprocal"
    /\ result' = lib_dsp_math_reciprocal(x, q)
    /\ rad' = Value(0)
    /\ UNCHANGED <<x, y, q, ub>>

InvSqrRoot ==
    /\ op' = "invsqrroot"
    /\ result' = lib_dsp_math_invsqrroot(x, q)
    /\ rad' = Value(0)
    /\ UNCHANGED <<x, y, q, ub>>

SquareRoot ==
    /\ op' = "squareroot"
    /\ result' = lib_dsp_math_squareroot(x, q)
    /\ rad' = Value(0)
    /\ UNCHANGED <<x, y, q, ub>>

Sin ==
    /\ op' = "sin"
    /\ result' = lib_dsp_math_sin(x, q)
    /\ LET f == SinReduce(x, q)
       IN  rad' = [value |-> f.rad, overflow |-> f.overflow]
    /\ UNCHANGED <<x, y, q, ub>>

Cos ==
    /\ op' = "cos"
    /\ result' = lib_dsp_math_cos(x, q)
    /\ LET f == SinReduce(AddW(x, PIHALF), q)
       IN  rad' = [value |-> f.rad, overflow |-> f.overflow \/ AddOverflows(x, PIHALF)]
    /\ UNCHANGED <<x, y, q, ub>>

NextMultiply == Multiply \/ MultiplySat
NextNewton == Reciprocal \/ InvSqrRoot \/ SquareRoot
NextSine == Sin \/ Cos

SpecMultiply == InitMultiply /\ [][NextMultiply]_vars
SpecNewton == InitNewton /\ [][NextNewton]_vars
SpecSine == InitSine /\ [][NextSine]_vars

TypeOK ==
    /\ op \in {"none", "multiply", "multiply_sat", "reciprocal", "invsqrroot",
               "squareroot", "sin", "cos"}
    /\ x \in MINint..MAXint /\ y \in MINint..MAXint /\ q \in QFormats
    /\ ub \in UBOutcomes
    /\ result.value \in MINint..MAXint /\ result.overflow \in BOOLEAN
    /\ rad.value \in MINint..MAXint /\ rad.overflow \in BOOLEAN

(***************************************************************************)
(* Exact arithmetic for the statements about multiply: naturals below 2^70 *)
(* as five base-2^14 digits, least significant first.                      *)
(***************************************************************************)
BigBase == 2^14

\* carry propagation over five digit sums
BigCarry(s) ==
    LET t1 == s[1]
        t2 == s[2] + t1 \div BigBase
        t3 == s[3] + t2 \div BigBase
        t4 == s[4] + t3 \div BigBase
        t5 == s[5] + t4 \div BigBase
    IN  <<t1 % BigBase, t2 % BigBase, t3 % BigBase, t4 % BigBase, t5 % BigBase>>

BigOfNat(n) == <<n % BigBase, (n \div BigBase) % BigBase, n \div (BigBase * BigBase), 0, 0>>
BigAdd(u, v) == BigCarry(<<u[1] + v[1], u[2] + v[2], u[3] + v[3], u[4] + v[4], u[5] + v[5]>>)
BigSub(u, v) == BigCarry(<<u[1] - v[1], u[2] - v[2], u[3] - v[3], u[4] - v[4], u[5] - v[5]>>)
BigAbs(a) == IF a >= 0 THEN BigOfNat(a) ELSE BigAdd(BigOfNat(-(a + 1)), BigOfNat(1))
BigMul(u, v) ==
    BigCarry(<<u[1] * v[1],
               u[1] * v[2] + u[2] * v[1],
               u[1] * v[3] + u[2] * v[2] + u[3] * v[1],
               u[2] * v[3] + u[3] * v[2],
               u[3] * v[3]>>)
BigDigit(n, i) == IF i = n \div 14 + 1 THEN 2^(n % 14) ELSE 0
BigPow2(n) == <<BigDigit(n, 1), BigDigit(n, 2), BigDigit(n, 3), BigDigit(n, 4), BigDigit(n, 5)>>

\* floor(u / 2^n)
BigShr(u, n) ==
    LET k == n \div 14
        s == n % 14
        at(i) == IF i <= 5 THEN u[i] ELSE 0
        d(i) == at(i + k) \div (2^s) + (at(i + k + 1) % (2^s)) * (2^(14 - s))
    IN  <<d(1), d(2), d(3), d(4), d(5)>>

BigLess(u, v) ==
    LET top == { i \in 1..5 : u[i] # v[i] }
    IN  top # {} /\ (LET m == CHOOSE i \in top : \A j \in top : j <= i IN u[m] < v[m])

\* floor((a*b + 2^(qf-1)) / 2^qf) + 2^(63-qf): the rounded quotient, offset
\* by a multiple of 2^32 that makes it a natural number
Quotient(a, b, qf) ==
    LET mag == BigMul(BigAbs(a), BigAbs(b))
        num == IF (a < 0) # (b < 0) THEN BigSub(BigPow2(63), mag)
               ELSE BigAdd(BigPow2(63), mag)
    IN  BigShr(BigAdd(num, BigPow2(qf - 1)), qf)

\* the offset images of -2^31 and 2^31 - 1
QuotientMin(qf) == BigSub(BigPow2(63 - qf), BigPow2(31))
QuotientMax(qf) == BigAdd(BigPow2(63 - qf), BigOfNat(MAXint))

\* where the rounded quotient lies, its value clamped to [-2^31, 2^31 - 1]
\* and its low 32 bits read as a signed word
Exact(a, b, qf) ==
    LET qv == Quotient(a, b, qf)
        hi == BigLess(QuotientMax(qf), qv)
        lo == BigLess(qv, QuotientMin(qf))
        d  == BigSub(qv, QuotientMin(qf))
        t  == qv[3] % 16
    IN  [above   |-> hi,
         below   |-> lo,
         clamped |-> IF hi THEN MAXint
                     ELSE IF lo THEN MINint
                     ELSE (d[3] - 8) * (2^28) + d[2] * BigBase + d[1],
         wrapped |-> (IF t >= 8 THEN t - 16 ELSE t) * (2^28) + qv[2] * BigBase + qv[1]]

\* |a - b| <= eps, without leaving the 32-bit range
Near(a, b, eps) ==
    IF (a >= 0) = (b >= 0) THEN a - b <= eps /\ b - a <= eps
    ELSE LET p == IF a >= 0 THEN a ELSE b
             n == IF a >= 0 THEN b ELSE a
         IN  p <= eps /\ n >= -eps /\ p - n <= eps

(***************************************************************************)
(* Properties                                                              *)
(***************************************************************************)
\* C1: multiply_sat(a, b, q) never wraps: it is the rounded quotient
\* floor((a*b + 2^(q-1)) / 2^q) clamped to [-2^31, 2^31 - 1], so it is
\* exactly 2^31 - 1 above the range and exactly -2^31 below it.
C1_MultiplySatClamps ==
    op = "multiply_sat" =>
        LET e == Exact(x, y, q)
        IN  Always(result, /\ result.value = e.clamped
                           /\ e.above => result.value = MAXint
                           /\ e.below => result.value = MINint)

C1_Witness ==
    /\ op = "multiply_sat" /\ q > 1 /\ x # MINint /\ Exact(x, y, q).above
    /\ ~result.overflow /\ result.value = MAXint

\* C2: multiply(a, b, q) equals multiply_sat(a, b, q) whenever the rounded
\* quotient lies in [-2^31, 2^31 - 1]; they differ only outside that range,
\* where multiply returns the low 32 bits of the quotient.
C2_MultiplyAgreesInRange ==
    op = "multiply" =>
        LET e == Exact(x, y, q)
            sat == lib_dsp_math_multiply_sat(x, y, q)
        IN  Always(result, /\ ~(e.above \/ e.below) => result.value = sat
                           /\ result.value # sat => (e.above \/ e.below)
                           /\ (e.above \/ e.below) => result.value = e.wrapped)

C2_Witness ==
    /\ op = "multiply" /\ Exact(x, y, q).below /\ ~result.overflow
    /\ result.value # lib_dsp_math_multiply_sat(x, y, q)

\* the tolerance one(q) / 2^10 of the approximate statements
Eps(qf) == IF qf >= 10 THEN 2^(qf - 10) ELSE 0

\* C3 as stated: reciprocal(d, 31) returns the same near-1.0 constant
\* Q31(0.9999999999) for every nonzero d, positive or negative.
C3_SameConstantForEveryD ==
    op = "reciprocal" /\ q = 31 /\ x # 0 =>
        Always(result, result.value = Q31_0_9999999999)

\* C3 amended: reciprocal(d, 31) bypasses the Newton loop and returns the
\* constant Q31(0.9999999999) for every d > 0 and its negation for every
\* d < 0 whose negation plus one is an int.
C3_ConstantWithSignOfD ==
    op = "reciprocal" /\ q = 31 /\ x # 0 /\ x \notin Extremes =>
        Always(result, result.value = IF x > 0 THEN Q31_0_9999999999
                                      ELSE NegW(Q31_0_9999999999))

C3_Witness ==
    /\ op = "reciprocal" /\ q = 31 /\ x < 0
    /\ ~result.overflow /\ result.value = NegW(Q31_0_9999999999)

\* C4: for every valid q other than 31 and each d in {one(q)/4, one(q),
\* -one(q)/2}, |multiply_sat(d, reciprocal(d, q), q) - one(q)| <= one(q)/2^10.
C4_ReciprocalSelfInverse ==
    op = "reciprocal" /\ q # 31 /\ x # 0
        /\ x \in {(2^q) \div 4, 2^q, -((2^q) \div 2)} =>
        Always(result, Near(lib_dsp_math_multiply_sat(x, result.value, q), 2^q, Eps(q)))

\* C5: for every d > 0 and valid q, y = inverse_sqrt(d, q) satisfies
\* |multiply_sat(y, y, q) - reciprocal(d, q)| <= one(q)/2^10.
C5_InvSqrtSquaredIsReciprocal ==
    op = "invsqrroot" /\ x > 0 =>
        LET r == lib_dsp_math_reciprocal(x, q)
        IN  Always(result, Always(r,
                Near(lib_dsp_math_multiply_sat(result.value, result.value, q),
                     r.value, Eps(q))))

\* C6: for every d >= 0 and valid q, r = sqrt(d, q) satisfies
\* |multiply_sat(r, r, q) - d| <= one(q)/2^10, and sqrt(0, q) = 0.
C6_SqrtSquaredIsD ==
    op = "squareroot" /\ x >= 0 =>
        Always(result,
            /\ Near(lib_dsp_math_multiply_sat(result.value, result.value, q), x, Eps(q))
            /\ x = 0 => result.value = 0)

\* C7 as stated: cos is exactly even, cos(-x, q) = cos(x, q) bit for bit,
\* for every x in the documented domain and the same q.
C7_CosExactlyEven ==
    op = "cos" /\ InDomain(x) =>
        LET c == lib_dsp_math_cos(NegW(x), q)
        IN  Always(result, Always(c, result.value = c.value))

\* C7 amended: at q = 24, the format PIHALF is scaled for, cos is even up to
\* rounding: cos(-x, 24) and cos(x, 24) = sin(x + PIHALF, 24) differ by at
\* most 3 units of the last place for every x in the documented domain.
C7_CosEvenUpToRounding ==
    op = "cos" /\ q = 24 /\ InDomain(x) =>
        LET c == lib_dsp_math_cos(NegW(x), q)
        IN  Always(result, Always(c, Near(result.value, c.value, 3)))

C7_Witness ==
    /\ op = "cos" /\ q = 24 /\ x = 1
    /\ ~result.overflow /\ ~lib_dsp_math_cos(-1, 24).overflow
    /\ result.value = lib_dsp_math_cos(-1, 24).value + 1

\* C8 as stated: at q = 28, sin(0, 28) = 0, |sin(PIHALF, 28) - 2^28| <= eps
\* and |sin(PI2, 28)| <= eps, with eps = 2^28 / 2^10.
C8_GoldenValuesQ28 ==
    op = "sin" /\ q = 28 /\ x \in {0, PIHALF, PI2} =>
        Always(result, /\ x = 0 => result.value = 0
                       /\ x = PIHALF => Near(result.value, 2^28, Eps(28))
                       /\ x = PI2 => Near(result.value, 0, Eps(28)))

\* C8 amended: the golden values hold at q = 24, the format PIHALF and PI2
\* are scaled for: sin(0, 24) = 0, |sin(PIHALF, 24) - 2^24| <= eps and
\* |sin(PI2, 24)| <= eps, with eps = 2^24 / 2^10.
C8_GoldenValuesQ24 ==
    op = "sin" /\ q = 24 /\ x \in {0, PIHALF, PI2} =>
        Always(result, /\ x = 0 => result.value = 0
                       /\ x = PIHALF => Near(result.value, 2^24, Eps(24))
                       /\ x = PI2 => Near(result.value, 0, Eps(24)))

C8_Witness ==
    op = "sin" /\ q = 24 /\ x = PIHALF /\ ~result.overflow /\ Near(result.value, 2^24, 1)

\* C9 as stated: at q = 24, for every rad in the documented domain, the
\* angle left after the quadrant reduction lies in [0, 26353590].
C9_FoldedAngleInWedge ==
    op = "sin" /\ q = 24 /\ InDomain(x) =>
        Always(rad, rad.value >= 0 /\ rad.value <= (PI2 + 3) \div 4)

\* C9 amended: at q = 24, for every rad in the documented domain, the angle
\* left after the quadrant reduction lies within 83 units of the last place
\* of the principal wedge: it is never below -82 and never above 26353673.
C9_FoldedAngleNearWedge ==
    op = "sin" /\ q = 24 /\ InDomain(x) =>
        Always(rad, rad.value >= -82 /\ rad.value <= (PI2 + 3) \div 4 + 83)

C9_Witness ==
    /\ op = "sin" /\ q = 24 /\ InDomain(x)
    /\ ~rad.overflow /\ rad.value < 0 /\ rad.value >= -82

\* C10: for every d >= 0 and valid q, sqrt(d, q) >= 0, and inverse_sqrt(d, q)
\* never ends its 10 iterations on a negative value for d > 0.
C10_SqrtNonNegative ==
    /\ op = "squareroot" /\ x >= 0 => Always(result, result.value >= 0)
    /\ op = "invsqrroot" /\ x > 0 => Always(result, result.value >= 0)

====
